---- MODULE Spec2Model ----
(***************************************************************************)
(* Model of cli/src/command.rs: the dispatch of run() on the subcommand,   *)
(* the host performance check host_perf_check() (release builds), the node *)
(* start-up path run_node_inner() and the two PVF worker arms.             *)
(*                                                                         *)
(* Every process is one launch of the binary after another.  A launch      *)
(* walks through the statements of the arm that its subcommand selects.    *)
(* The sentinel file beside the executable is the only state shared by     *)
(* the processes.  The build is a release build (not(debug_assertions)),    *)
(* the only one in which host_perf_check exists; time is in seconds.       *)
(***************************************************************************)
EXTENDS Integers, Sequences, FiniteSets, TLC

\* ------------------------------------------------------------------ bounds
\* Longest time (in seconds) one pipeline stage may take in the model.  Three
\* stages of at most MaxStageTime seconds straddle PERF_CHECK_TIME_LIMIT.
MaxStageTime == 7

\* --------------------------------------------------------------- constants
\* const PERF_CHECK_TIME_LIMIT: Duration = Duration::from_secs(20);
PERF_CHECK_TIME_LIMIT == 20

\* The stages of the pipeline in the order host_perf_check calls them.
Stages == <<"decompress", "prevalidate", "prepare">>

\* Socket paths a worker may be handed; Endpoints are those the spawner has
\* created, the other path does not exist.
SocketPaths == {"/run/pvf.sock", "/nonexistent"}
Endpoints == {"/run/pvf.sock"}

\* The subcommands of the model: None starts the node, the others are the
\* arms of run() the claims are about.
Subcommands ==
  {[name |-> "None", socket_path |-> ""],
   [name |-> "HostPerfCheck", socket_path |-> ""]}
  \cup {[name |-> n, socket_path |-> s] :
          n \in {"PvfPrepareWorker", "PvfExecuteWorker"}, s \in SocketPaths}

Roles == {"Light", "Full", "Authority"}

\* ------------------------------------------------------------ return values
NoRet == [tag |-> "None"]
Ok == [tag |-> "Ok"]
\* Error::Other(format!(...)) of a failed stage (map_err closures).
StageError(stage) ==
  [tag |-> "Other",
   msg |-> CASE stage = "decompress" -> "Failed to decompress test wasm code"
             [] stage = "prevalidate" ->
                  "Failed to create runtime blob from the decompressed code"
             [] OTHER -> "Failed to precompile test wasm code"]
\* Error::Other("Performance check not passed: exceeded the {limit} time limit,
\* elapsed: {elapsed}")
PerfError(limit, e) ==
  [tag |-> "Other", msg |-> "Performance check not passed", limit |-> limit,
   elapsed |-> e]
LightError == [tag |-> "Other", msg |-> "Light client not enabled"]
CliError == [tag |-> "SubstrateCli", msg |-> "create_runner"]
ServiceError == [tag |-> "PolkadotService", msg |-> "build_full"]
UnsupportedError(what) ==
  [tag |-> "SubstrateCli",
   msg |-> IF what = "prepare"
             THEN "PVF preparation workers are not supported under this platform"
             ELSE "PVF execution workers are not supported under this platform"]

IsErr(r) == r.tag \notin {"None", "Ok"}

VARIABLES
  platform,  \* target_os of the build: "android" or "other"
  procs,     \* the host processes that launch the binary
  sentinel,  \* TRUE iff <exe dir>/.perf_check_passed exists
  touched,   \* socket paths some worker entrypoint tried to connect to
  pc,        \* pc[p]: the statement process p is at
  cmd,       \* cmd[p]: cli.subcommand of p's current launch
  calls,     \* calls[p]: the stage invocations of this launch, with outcome
  elapsed,   \* elapsed[p]: seconds since `start` of this launch
  touch,     \* touch[p]: result of the OpenOptions::open at the end, discarded
  gate,      \* gate[p]: what host_perf_check() returned in this launch
  built,     \* built[p]: service::build_full returned the service
  entry,     \* entry[p]: the worker entrypoint calls of this launch
  ret        \* ret[p]: what run() returned

vars == <<platform, procs, sentinel, touched, pc, cmd, calls, elapsed, touch,
          gate, built, entry, ret>>

\* ---------------------------------------------------------------- helpers
\* if elapsed <= PERF_CHECK_TIME_LIMIT
InTimeStrict(e) == e < PERF_CHECK_TIME_LIMIT
InTime(e) == e <= PERF_CHECK_TIME_LIMIT

\* Path::new(&check_passed_path).exists()
ExistsNever(file) == FALSE
Exists(file) == file

\* OpenOptions::new().create(true).write(true).open(path): creates the file if
\* it is missing, opens it untouched if it is there; writeOk is whether the
\* file system lets the process do so.
OpenOtherPath(file, writeOk) ==
  [file |-> file, res |-> IF writeOk THEN "ok" ELSE "err"]
OpenRecreate(file, writeOk) ==
  [file |-> writeOk, res |-> IF writeOk THEN "ok" ELSE "err"]
OpenCreate(file, writeOk) ==
  [file |-> file \/ writeOk, res |-> IF writeOk THEN "ok" ELSE "err"]

\* The value host_perf_check returns after the three stages: `let _ =` drops
\* the result of the open.
FinishResultPropagate(e, res) ==
  IF InTime(e)
    THEN IF res = "err" THEN [tag |-> "Other", msg |-> "io"] ELSE Ok
    ELSE PerfError(PERF_CHECK_TIME_LIMIT, e)
FinishResult(e, res) ==
  IF InTime(e) THEN Ok ELSE PerfError(PERF_CHECK_TIME_LIMIT, e)

\* #[cfg(target_os = "android")]
UnsupportedNever(os) == FALSE
Unsupported(os) == os = "android"

\* What polkadot_node_core_pvf::{prepare,execute}_worker_entrypoint does with
\* the socket path: it connects, and comes back when the connection cannot be
\* made or when the spawner shuts the worker down.
Entrypoint(path) == IF path \in Endpoints THEN "shutdown" ELSE "bind_failed"

AllOk(cs) == Len(cs) = Len(Stages) /\ \A i \in 1..Len(cs) : cs[i].ok

InitWith(ps) ==
  /\ platform \in {"android", "other"}
  /\ procs = ps
  /\ sentinel = FALSE
  /\ touched = {}
  /\ pc = [p \in ps |-> "idle"]
  /\ cmd = [p \in ps |-> [name |-> "None", socket_path |-> ""]]
  /\ calls = [p \in ps |-> <<>>]
  /\ elapsed = [p \in ps |-> 0]
  /\ touch = [p \in ps |-> "none"]
  /\ gate = [p \in ps |-> NoRet]
  /\ built = [p \in ps |-> FALSE]
  /\ entry = [p \in ps |-> <<>>]
  /\ ret = [p \in ps |-> NoRet]

Init == InitWith({1})
InitConc == InitWith({1, 2})

\* ------------------------------------------------------------------ run()
\* let cli = Cli::from_args(); match &cli.subcommand { ... }
Launch(p) ==
  /\ pc[p] \in {"idle", "done"}
  /\ \E c \in Subcommands :
       /\ cmd' = [cmd EXCEPT ![p] = c]
       /\ pc' = [pc EXCEPT ![p] =
                   CASE c.name = "None" -> "create_runner"
                     [] c.name = "HostPerfCheck" -> "exists"
                     [] OTHER -> "worker"]
  /\ calls' = [calls EXCEPT ![p] = <<>>]
  /\ elapsed' = [elapsed EXCEPT ![p] = 0]
  /\ touch' = [touch EXCEPT ![p] = "none"]
  /\ gate' = [gate EXCEPT ![p] = NoRet]
  /\ built' = [built EXCEPT ![p] = FALSE]
  /\ entry' = [entry EXCEPT ![p] = <<>>]
  /\ ret' = [ret EXCEPT ![p] = NoRet]
  /\ UNCHANGED <<platform, procs, sentinel, touched>>

\* host_perf_check returns r; the HostPerfCheck arm hands r to run()'s `?`.
Return(p, r) ==
  /\ pc' = [pc EXCEPT ![p] = "done"]
  /\ gate' = [gate EXCEPT ![p] = r]
  /\ ret' = [ret EXCEPT ![p] = r]

\* -------------------------------------------------------- host_perf_check
\* if Path::new(&check_passed_path).exists() { return Ok(()) }
\* let start = Instant::now();
CheckPassedFile(p) ==
  /\ pc[p] = "exists"
  /\ IF Exists(sentinel)
       THEN Return(p, Ok)
       ELSE /\ pc' = [pc EXCEPT ![p] = "decompress"]
            /\ UNCHANGED <<gate, ret>>
  /\ UNCHANGED <<platform, procs, sentinel, touched, cmd, calls, elapsed,
                 touch, built, entry>>

\* One stage of the pipeline: it takes d seconds and succeeds or fails; a
\* failure returns the stage's error (map_err(..)?), a success goes on to next.
Stage(p, stage, next) ==
  /\ pc[p] = stage
  /\ \E d \in 0..MaxStageTime, ok \in BOOLEAN :
       /\ calls' = [calls EXCEPT ![p] = Append(@, [stage |-> stage, ok |-> ok])]
       /\ elapsed' = [elapsed EXCEPT ![p] = @ + d]
       /\ IF ok
            THEN /\ pc' = [pc EXCEPT ![p] = next]
                 /\ UNCHANGED <<gate, ret>>
            ELSE Return(p, StageError(stage))
  /\ UNCHANGED <<platform, procs, sentinel, touched, cmd, touch, built, entry>>

\* A prevalidate whose error is dropped instead of returned.
PrevalidateSwallow(p) ==
  /\ pc[p] = "prevalidate"
  /\ \E d \in 0..MaxStageTime, ok \in BOOLEAN :
       /\ calls' = [calls EXCEPT ![p] =
                      Append(@, [stage |-> "prevalidate", ok |-> ok])]
       /\ elapsed' = [elapsed EXCEPT ![p] = @ + d]
       /\ pc' = [pc EXCEPT ![p] = "prepare"]
       /\ UNCHANGED <<gate, ret>>
  /\ UNCHANGED <<platform, procs, sentinel, touched, cmd, touch, built, entry>>

Decompress(p) == Stage(p, "decompress", "prevalidate")
Prevalidate(p) == Stage(p, "prevalidate", "prepare")
Prepare(p) == Stage(p, "prepare", "finish")

\* A finish that touches the file before it looks at the time.
FinishTouchFirst(p) ==
  /\ pc[p] = "finish"
  /\ \E writeOk \in BOOLEAN :
       LET o == OpenCreate(sentinel, writeOk)
       IN /\ sentinel' = o.file
          /\ touch' = [touch EXCEPT ![p] = o.res]
          /\ Return(p, FinishResult(elapsed[p], o.res))
  /\ UNCHANGED <<platform, procs, touched, cmd, calls, elapsed, built, entry>>

\* let elapsed = start.elapsed();
\* if elapsed <= LIMIT { let _ = OpenOptions...open(path); Ok(()) } else { Err }
Finish(p) ==
  /\ pc[p] = "finish"
  /\ \E writeOk \in BOOLEAN :
       LET o == IF InTime(elapsed[p])
                  THEN OpenCreate(sentinel, writeOk)
                  ELSE [file |-> sentinel, res |-> "none"]
       IN /\ sentinel' = o.file
          /\ touch' = [touch EXCEPT ![p] = o.res]
          /\ Return(p, FinishResult(elapsed[p], o.res))
  /\ UNCHANGED <<platform, procs, touched, cmd, calls, elapsed, built, entry>>

\* --------------------------------------------------------- run_node_inner
\* let runner = cli.create_runner(&cli.run.base).map_err(Error::from)?;
CreateRunner(p) ==
  /\ pc[p] = "create_runner"
  /\ \E ok \in BOOLEAN :
       IF ok
         THEN /\ pc' = [pc EXCEPT ![p] = "build_full"]
              /\ UNCHANGED ret
         ELSE /\ pc' = [pc EXCEPT ![p] = "done"]
              /\ ret' = [ret EXCEPT ![p] = CliError]
  /\ UNCHANGED <<platform, procs, sentinel, touched, cmd, calls, elapsed,
                 touch, gate, built, entry>>

\* runner.run_node_until_exit(|config| match role { Light => Err, _ =>
\* service::build_full(..) })
BuildFull(p) ==
  /\ pc[p] = "build_full"
  /\ \E role \in Roles, ok \in BOOLEAN :
       /\ built' = [built EXCEPT ![p] = role # "Light" /\ ok]
       /\ ret' = [ret EXCEPT ![p] =
                    IF role = "Light" THEN LightError
                    ELSE IF ok THEN Ok ELSE ServiceError]
  /\ pc' = [pc EXCEPT ![p] = "done"]
  /\ UNCHANGED <<platform, procs, sentinel, touched, cmd, calls, elapsed,
                 touch, gate, entry>>

\* ------------------------------------------------------------ worker arms
\* Some(Subcommand::PvfPrepareWorker(cmd)) / Some(Subcommand::PvfExecuteWorker(cmd))
Worker(p, name, what) ==
  /\ pc[p] = "worker"
  /\ cmd[p].name = name
  /\ IF Unsupported(platform)
       THEN /\ ret' = [ret EXCEPT ![p] = UnsupportedError(what)]
            /\ UNCHANGED <<entry, touched>>
       ELSE /\ entry' = [entry EXCEPT ![p] =
                           Append(@, [fn |-> what, path |-> cmd[p].socket_path,
                                      outcome |-> Entrypoint(cmd[p].socket_path)])]
            /\ touched' = touched \cup {cmd[p].socket_path}
            /\ ret' = [ret EXCEPT ![p] = Ok]
  /\ pc' = [pc EXCEPT ![p] = "done"]
  /\ UNCHANGED <<platform, procs, sentinel, cmd, calls, elapsed, touch, gate,
                 built>>

PvfPrepareWorker(p) == Worker(p, "PvfPrepareWorker", "prepare")
PvfExecuteWorker(p) == Worker(p, "PvfExecuteWorker", "execute")

Next ==
  \/ \E p \in procs : Launch(p)
  \/ \E p \in procs : CheckPassedFile(p)
  \/ \E p \in procs : Decompress(p)
  \/ \E p \in procs : Prevalidate(p)
  \/ \E p \in procs : Prepare(p)
  \/ \E p \in procs : Finish(p)
  \/ \E p \in procs : CreateRunner(p)
  \/ \E p \in procs : BuildFull(p)
  \/ \E p \in procs : PvfPrepareWorker(p)
  \/ \E p \in procs : PvfExecuteWorker(p)

Spec == Init /\ [][Next]_vars
SpecConc == InitConc /\ [][Next]_vars

\* ---------------------------------------------------------------- typing
Locations ==
  {"idle", "exists", "decompress", "prevalidate", "prepare", "finish",
   "create_runner", "build_full", "worker", "done"}

TypeOK ==
  /\ platform \in {"android", "other"}
  /\ sentinel \in BOOLEAN
  /\ touched \subseteq SocketPaths
  /\ \A p \in procs :
       /\ pc[p] \in Locations
       /\ cmd[p] \in Subcommands
       /\ Len(calls[p]) <= Len(Stages)
       /\ elapsed[p] \in 0..(Len(Stages) * MaxStageTime)
       /\ touch[p] \in {"none", "ok", "err"}
       /\ built[p] \in BOOLEAN

\* ------------------------------------------------------ notions of the claims
\* p's current launch is the HostPerfCheck subcommand.
IsPerfCheck(p) == cmd[p].name = "HostPerfCheck"
IsWorker(p) == cmd[p].name \in {"PvfPrepareWorker", "PvfExecuteWorker"}
\* The statements of host_perf_check after the sentinel was found missing.
Pipeline == {"decompress", "prevalidate", "prepare", "finish"}
\* Some stage of p's current run failed.
Failed(p) == \E i \in 1..Len(calls[p]) : ~calls[p][i].ok
\* p's current run is over and ran the three stages with no error in time.
Passed(p) ==
  /\ IsPerfCheck(p)
  /\ pc[p] = "done"
  /\ AllOk(calls[p])
  /\ elapsed[p] <= PERF_CHECK_TIME_LIMIT
\* p's current run is over and met the sentinel: it ran nothing.
Skipped(p) == IsPerfCheck(p) /\ pc[p] = "done" /\ calls[p] = <<>>

\* C1: with the sentinel absent at the start and no other writer, the sentinel
\* comes into being only in the step that ends a run whose three stages all
\* succeeded within the limit and that returns Ok; a run that ended with a
\* failed stage or over the limit did not try to create it and leaves it absent.
C1_SentinelOnlyAfterPass ==
  /\ [](\A p \in procs :
          (IsPerfCheck(p) /\ pc[p] = "done"
             /\ (Failed(p) \/ elapsed[p] > PERF_CHECK_TIME_LIMIT))
          => (~sentinel /\ touch[p] = "none" /\ IsErr(gate[p])))
  /\ [][(~sentinel /\ sentinel') =>
          \E p \in procs :
            /\ IsPerfCheck(p) /\ pc[p] = "finish" /\ pc'[p] = "done"
            /\ AllOk(calls[p]) /\ calls'[p] = calls[p]
            /\ elapsed[p] <= PERF_CHECK_TIME_LIMIT
            /\ gate'[p] = Ok]_vars

\* C1 witness: a run passed in time and its open created the sentinel.
C1_Witness ==
  \E p \in procs : Passed(p) /\ touch[p] = "ok" /\ sentinel /\ gate[p] = Ok

\* C2: a run of host_perf_check that finds the sentinel returns Ok at once
\* with no stage invoked and no time measured.
C2_SkipWhenSentinel ==
  [][\A p \in procs :
       (pc[p] = "exists" /\ sentinel /\ pc'[p] # "exists")
       => /\ pc'[p] = "done"
          /\ calls'[p] = <<>>
          /\ gate'[p] = Ok
          /\ ret'[p] = Ok
          /\ sentinel']_vars

\* C2 witness: a run that met the sentinel is over, with no stage invoked.
C2_Witness == \E p \in procs : Skipped(p) /\ sentinel /\ ret[p] = Ok

\* C3 as stated: after any run in which the three stages succeed in time the
\* sentinel exists.
C3_Original == \A p \in procs : Passed(p) => sentinel

\* C3 amended: after a run in which the three stages succeed in time and the
\* open of the sentinel reports no error, the sentinel exists; it is never
\* removed (so it is created once); and while it exists no run is inside the
\* pipeline: a finished run either invoked no stage or is the run that
\* created it.
C3_CreatedOnceThenSkipped ==
  /\ [](\A p \in procs :
          /\ (Passed(p) /\ touch[p] # "err") => sentinel
          /\ sentinel => pc[p] \notin Pipeline
          /\ (sentinel /\ IsPerfCheck(p) /\ pc[p] = "done")
             => (Skipped(p) \/ (Passed(p) /\ touch[p] = "ok")))
  /\ [][sentinel => sentinel']_vars

\* C3 witness: a later startup, launched while the sentinel of an earlier
\* passing run exists, has skipped the pipeline.
C3_Witness ==
  \E p \in procs :
    /\ Skipped(p) /\ sentinel
    /\ elapsed[p] = 0 /\ touch[p] = "none" /\ gate[p] = Ok

\* C4: whenever the node service has been built, host_perf_check has returned
\* Ok in the same launch.
C4_GateBeforeService == \A p \in procs : built[p] => gate[p] = Ok

\* C5: with the three stages successful, host_perf_check fails iff the elapsed
\* time is strictly above the 20 s limit (exactly 20 s passes), and the error
\* carries the limit and the measured time.
C5_FailsIffOverLimit ==
  \A p \in procs :
    (IsPerfCheck(p) /\ pc[p] = "done" /\ AllOk(calls[p]))
    => /\ IsErr(gate[p]) <=> elapsed[p] > PERF_CHECK_TIME_LIMIT
       /\ elapsed[p] <= PERF_CHECK_TIME_LIMIT => gate[p] = Ok
       /\ elapsed[p] > PERF_CHECK_TIME_LIMIT =>
            /\ gate[p].msg = "Performance check not passed"
            /\ gate[p].limit = 20
            /\ gate[p].elapsed = elapsed[p]
       /\ ret[p] = gate[p]

\* C5 witness: a run whose stages took exactly the limit passed.
C5_Witness ==
  \E p \in procs :
    /\ IsPerfCheck(p) /\ pc[p] = "done" /\ AllOk(calls[p])
    /\ elapsed[p] = PERF_CHECK_TIME_LIMIT /\ gate[p] = Ok

\* C6: the stages are invoked in the order decompress, prevalidate, prepare; a
\* failed stage is the last one invoked, and the run ends with that stage's
\* error, not the time-limit error, whatever the elapsed time, without
\* touching the sentinel.
C6_StageErrorWins ==
  \A p \in procs :
    /\ \A i \in 1..Len(calls[p]) : calls[p][i].stage = Stages[i]
    /\ \A i \in 1..Len(calls[p]) :
         ~calls[p][i].ok =>
           /\ i = Len(calls[p])
           /\ pc[p] = "done"
           /\ gate[p] = StageError(Stages[i])
           /\ gate[p].msg # "Performance check not passed"
           /\ ret[p] = gate[p]
           /\ touch[p] = "none"

\* C6 witness: the last stage failed when more than the limit had elapsed.
C6_Witness ==
  \E p \in procs :
    /\ pc[p] = "done" /\ Len(calls[p]) = 3 /\ ~calls[p][3].ok
    /\ elapsed[p] > PERF_CHECK_TIME_LIMIT
    /\ gate[p] = StageError("prepare")

\* C7: a worker launch whose entrypoint could not bind its endpoint makes
\* run() return an error; run() returns Ok for a worker only after a shutdown.
C7_BindFailureIsError ==
  \A p \in procs :
    (IsWorker(p) /\ pc[p] = "done")
    => /\ (\E i \in 1..Len(entry[p]) : entry[p][i].outcome = "bind_failed")
            => IsErr(ret[p])
       /\ ret[p] = Ok =>
            (\E i \in 1..Len(entry[p]) : entry[p][i].outcome = "shutdown")

\* C8: on the unsupported platform a worker launch returns the unsupported
\* error of its mode, no entrypoint is called and no socket path is touched;
\* elsewhere the prepare arm calls the prepare entrypoint once, the execute arm
\* the execute entrypoint once, with the socket path given, and nothing else.
C8_PlatformCheck ==
  /\ platform = "android" =>
       /\ touched = {}
       /\ \A p \in procs :
            /\ entry[p] = <<>>
            /\ (IsWorker(p) /\ pc[p] = "done") =>
                 ret[p] = UnsupportedError(IF cmd[p].name = "PvfPrepareWorker"
                                             THEN "prepare" ELSE "execute")
  /\ platform # "android" =>
       \A p \in procs :
         IF IsWorker(p) /\ pc[p] = "done"
           THEN /\ Len(entry[p]) = 1
                /\ entry[p][1].fn = (IF cmd[p].name = "PvfPrepareWorker"
                                       THEN "prepare" ELSE "execute")
                /\ entry[p][1].path = cmd[p].socket_path
                /\ cmd[p].socket_path \in touched
           ELSE entry[p] = <<>>

\* C8 witness: a worker launch on the unsupported platform is over.
C8_Witness ==
  \E p \in procs :
    /\ platform = "android" /\ IsWorker(p) /\ pc[p] = "done"
    /\ IsErr(ret[p]) /\ entry[p] = <<>>

\* C9: when the pipeline completes in time and the open of the sentinel fails,
\* host_perf_check still returns Ok and the sentinel stays absent; and a run
\* that finds the sentinel absent enters the pipeline.
C9_BestEffortSentinel ==
  /\ [](\A p \in procs :
          (Passed(p) /\ touch[p] = "err")
          => (gate[p] = Ok /\ ret[p] = Ok /\ ~sentinel))
  /\ [][\A p \in procs :
          (pc[p] = "exists" /\ ~sentinel /\ pc'[p] # "exists")
          => (pc'[p] = "decompress" /\ ~sentinel')]_vars

\* C9 witness: a run passed in time, its open failed, the sentinel is absent.
C9_Witness ==
  \E p \in procs :
    Passed(p) /\ touch[p] = "err" /\ ret[p] = Ok /\ ~sentinel

\* C10: with two processes running the check at once, the outcome of a run
\* depends on its own stages and its own elapsed time only (it fails iff a
\* stage of its own failed or its own time is over the limit), and no step
\* removes an existing sentinel, so that once written it stays.
C10_ConcurrentRuns ==
  /\ [](\A p \in procs :
          (IsPerfCheck(p) /\ pc[p] = "done" /\ ~Skipped(p))
          => (IsErr(gate[p]) <=>
                (Failed(p) \/ elapsed[p] > PERF_CHECK_TIME_LIMIT)))
  /\ [][sentinel => sentinel']_vars

\* C10 witness: both processes found the sentinel absent, both ran the full
\* pipeline in time, and both opens succeeded, the later one on the file the
\* earlier one had created.
C10_Witness ==
  /\ procs = {1, 2}
  /\ \A p \in procs : Passed(p) /\ touch[p] = "ok" /\ gate[p] = Ok
  /\ sentinel

====
